---- MODULE Spec2Model ----
(***************************************************************************)
(* Model of the two MFC case files                                         *)
(*   src/example_cases/1D_exp_bubscreen/input_bak.py   ("bubscreen")       *)
(*   src/tests_hypoelastic/2d_5wave/input.py           ("5wave")           *)
(* Each file is a straight-line script: it derives the physical scales and *)
(* the discretization, reads the component name from argv, evaluates the   *)
(* case_dict literal and calls f_execute_mfc_component once.  The literals *)
(* a user edits in the file (p0, rho0, cfl, Nx, Nfiles, the patch          *)
(* declarations, the entries of the dict literal) and argv are the inputs  *)
(* of the model.                                                           *)
(***************************************************************************)
EXTENDS Integers, Sequences, FiniteSets, TLC

\* ------------------------------------------------------------------ bounds
MaxNx == 3

MaxNfiles == 3

MaxPatches == 3

\* ------------------------------------------------------- Python float model
(***************************************************************************)
(* A Python float is modelled as a decimal floating-point number           *)
(* [m |-> mantissa, e |-> exponent] of value m * 10^e, normalised to       *)
(* 1000 <= |m| <= 9999 (or m = 0, e = 0): four significant digits, with    *)
(* round-half-up, instead of the 53 bits of an IEEE double.  Every         *)
(* operation rounds as the double operation does, with a relative error    *)
(* below 5e-4.                                                             *)
(***************************************************************************)
Abs(n) == IF n < 0 THEN -n ELSE n

Sgn(n) == IF n < 0 THEN -1 ELSE IF n > 0 THEN 1 ELSE 0

RECURSIVE Pow10(_)
Pow10(k) == IF k <= 0 THEN 1 ELSE 10 * Pow10(k - 1)

RECURSIVE NormPos(_, _)
NormPos(m, e) ==
    IF m = 0 THEN [m |-> 0, e |-> 0]
    ELSE IF m >= 10000 THEN NormPos((m + 5) \div 10, e + 1)
    ELSE IF m < 1000 THEN NormPos(m * 10, e - 1)
    ELSE [m |-> m, e |-> e]

Norm(m, e) ==
    LET r == NormPos(Abs(m), e) IN [m |-> Sgn(m) * r.m, e |-> r.e]

F(m, e) == Norm(m, e)

FromInt(n) == Norm(n, 0)

FNeg(a) == [m |-> -a.m, e |-> a.e]

FMul(a, b) == Norm(a.m * b.m, a.e + b.e)

\* a / b for b # 0 (Python raises ZeroDivisionError for b = 0: the callers
\* test for it before dividing).
FDiv(a, b) ==
    Norm(Sgn(a.m) * Sgn(b.m) * ((Abs(a.m) * 100000) \div Abs(b.m)),
         a.e - b.e - 5)

FAdd(a, b) ==
    IF a.m = 0 THEN b
    ELSE IF b.m = 0 THEN a
    ELSE IF a.e >= b.e
         THEN IF a.e - b.e > 4 THEN a
              ELSE Norm(a.m * Pow10(a.e - b.e) + b.m, b.e)
         ELSE IF b.e - a.e > 4 THEN b
              ELSE Norm(b.m * Pow10(b.e - a.e) + a.m, a.e)

FSub(a, b) == FAdd(a, FNeg(b))

FLess(a, b) == FSub(a, b).m < 0

FLeq(a, b) == FSub(a, b).m <= 0

RECURSIVE ISqrtBetween(_, _, _)
ISqrtBetween(n, lo, hi) ==
    IF lo >= hi THEN lo
    ELSE LET mid == (lo + hi + 1) \div 2 IN
         IF mid * mid <= n THEN ISqrtBetween(n, mid, hi)
         ELSE ISqrtBetween(n, lo, mid - 1)

ISqrt(n) == ISqrtBetween(n, 0, 31622)

\* math.sqrt(a) for a >= 0 (Python raises ValueError for a < 0).
FSqrt(a) ==
    IF a.m = 0 THEN a
    ELSE LET odd == (a.e % 2) # 0
             m2  == IF odd THEN a.m * 10 ELSE a.m
             e2  == IF odd THEN a.e - 1 ELSE a.e
         IN Norm(ISqrt(m2 * 10000), (e2 \div 2) - 2)

\* int(a): truncation toward zero.
FInt(a) ==
    IF a.e >= 0 THEN a.m * Pow10(a.e)
    ELSE IF a.e < -4 THEN 0
    ELSE Sgn(a.m) * (Abs(a.m) \div Pow10(-a.e))

\* |a - b| <= pct% of |b|
FWithinPct(a, b, pct) ==
    LET d == FSub(a, b)
        t == FDiv(FMul(FromInt(pct), b), FromInt(100))
    IN FLeq([m |-> Abs(d.m), e |-> d.e], [m |-> Abs(t.m), e |-> t.e])

\* ------------------------------------------------ literals of the case files
x0 == F(10, -6)

pv == F(23388, -1)

mul0 == F(1002, -6)

ss == F(7275, -5)

R0ref == F(10, -6)

cphysical == F(1475, 0)

Ldomain == F(20, -3)

Nfiles_bubscreen == 20

Nx_bubscreen == 100

Nt_5wave == 200

Nx_5wave == 399

Nfiles_5wave == 1

Tend_5wave == F(64, -6)

Scripts == {"bubscreen", "5wave"}

\* ------------------------------------------------------------------- inputs
\* <<p0, rho0>>: the file's values, a pressure below the vapour pressure pv,
\* a zero and a negative density.
PhysicalInputs ==
    { <<F(101325, 0), F(1000, 0)>>, <<F(2000, 0), F(1000, 0)>>,
      <<F(101325, 0), F(0, 0)>>, <<F(101325, 0), F(-1000, 0)>> }

\* cfl: the file's 0.1, a larger stable target, and an unstable one.
CflInputs == { F(1, -1), F(9, -1), F(1, 0) }

NxInputs == (0 .. MaxNx) \cup {Nx_bubscreen}

NfilesInputs == (1 .. MaxNfiles) \cup {Nfiles_bubscreen}

\* sys.argv as a list of arguments, each a sequence of tokens (a word, or one
\* whitespace character), so that str.strip() has something to remove.
ArgvInputs ==
    { << <<"input.py">> >>,
      << <<"input.py">>, <<"pre_process">> >>,
      << <<"input.py">>, <<" ", "simulation", "\n">> >>,
      << <<"input.py">>, <<"post_process", " ">> >>,
      << <<"input.py">>, <<"pre", " ", "process">> >>,
      << <<"input.py">>, <<"bogus">> >> }

\* The patch declarations of the dict literal, in the order they are written:
\* the k-th has its own length_x, and at most one of them carries an
\* alter_patch(j) entry (alter = 0: none).
PatchLengths == <<2000, 500, 250, 125, 60>>

PatchDecl(k, alt) == [length_x |-> PatchLengths[k], alter |-> alt]

PatchInputs ==
    { [k \in 1 .. n |-> PatchDecl(k, 0)] : n \in 1 .. MaxPatches }
    \cup
    { [k \in 1 .. n |-> PatchDecl(k, IF k = i THEN j ELSE 0)] :
        n \in 1 .. MaxPatches, i \in 1 .. MaxPatches, j \in 1 .. MaxPatches + 1 }

\* A field name written a second time in the literal ("" : none).
DupInputs == {"", "m"}

\* ------------------------------------------------------ Physical Normalizer
c0_expr(p, rho) == FSqrt(FDiv(p, rho))

uu_expr(p, rho) == FSqrt(FDiv(p, rho))

Ca_expr(p, vap, rho, u) == FDiv(FSub(p, vap), FMul(rho, FMul(u, u)))

\* We with the velocity not squared.
We_expr_nosquare(rho, u, R, sigma) == FDiv(FMul(FMul(rho, u), R), sigma)

We_expr(rho, u, R, sigma) == FDiv(FMul(FMul(rho, FMul(u, u)), R), sigma)

Re_inv_expr(mu, rho, u, R) == FDiv(mu, FMul(FMul(rho, u), R))

\* --------------------------------------------------- Discretization Planner
L_expr(Ld, x) == FDiv(Ld, x)

dx_expr(len, n) == FDiv(len, FromInt(n))

\* dt without the scaling of the physical speed by c0.
dt_expr_noscale(c, d, cph, cs) == FDiv(FMul(c, d), cph)

dt_expr(c, d, cph, cs) == FDiv(FMul(c, d), FDiv(cph, cs))

Tfinal_expr(Ld, cph, cs, x) ==
    LET Lpulse == FMul(F(3, -1), Ld)
        Tpulse == FDiv(Lpulse, cph)
    IN FDiv(FMul(FMul(FMul(F(25, -2), F(10, 0)), Tpulse), cs), x)

Nt_raw_expr(T, d) == FInt(FDiv(T, d))

\* The ceiling taken as floor + 1.
Nout_expr_floor_plus_one(nt, nf) == (nt \div nf) + 1

\* The ceiling replaced by int(): the quotient truncated.
Nout_expr_floor(nt, nf) == nt \div nf

\* int(math.ceil(Nt/Nfiles)): the quotient of two integers below 2^53 is
\* rounded correctly by the double division, so the ceiling is the exact one.
Nout_expr(nt, nf) ==
    IF nt % nf = 0 THEN nt \div nf ELSE (nt \div nf) + 1

\* int(Nout+Nfiles)
Nt_expr_sum(nout, nf) == nout + nf

\* int(Nout*Nfiles)
Nt_expr(nout, nf) == nout * nf

\* The implied CFL ratio (cphysical/c0) * dt / dx of the comment at line 67.
ImpliedCfl(cph, cs, d, h) == FDiv(FMul(FDiv(cph, cs), d), h)

\* ------------------------------------------------------------ dict literal
Key(name) == <<name, 0, "", 0>>

PatchKey(i, fld) == <<"patch_icpp", i, fld, 0>>

AlterKey(i, j) == <<"patch_icpp", i, "alter_patch", j>>

Entry(key, val) == [k |-> key, v |-> val]

EmptyDict == [x \in {} |-> 0]

\* d[k] = v of a Python dict: a key already present is overwritten.
Put(d, key, val) ==
    [x \in (DOMAIN d) \cup {key} |-> IF x = key THEN val ELSE d[x]]

\* { k1 : v1, k2 : v2, ... }: the entries are stored left to right.
RECURSIVE DictLiteral(_)
DictLiteral(es) ==
    IF es = <<>> THEN EmptyDict
    ELSE LET last == es[Len(es)] IN
         Put(DictLiteral(SubSeq(es, 1, Len(es) - 1)), last.k, last.v)

HasDuplicateKeys(es) ==
    \E a, b \in 1 .. Len(es) : a < b /\ es[a].k = es[b].k

\* ----------------------------------------------------------- Patch Composer
\* The patches numbered from 0.
PatchEntries_zero(ps, i, geom) ==
    << Entry(PatchKey(i - 1, "geometry"), geom) >>
    \o (IF ps[i].alter # 0
        THEN << Entry(AlterKey(i - 1, ps[i].alter), "T") >> ELSE << >>)
    \o << Entry(PatchKey(i - 1, "length_x"), ps[i].length_x) >>

\* The entries of the i-th declared patch: 'patch_icpp(i)%...'.
PatchEntries(ps, i, geom) ==
    << Entry(PatchKey(i, "geometry"), geom) >>
    \o (IF ps[i].alter # 0
        THEN << Entry(AlterKey(i, ps[i].alter), "T") >> ELSE << >>)
    \o << Entry(PatchKey(i, "length_x"), ps[i].length_x) >>

RECURSIVE AllPatchEntries(_, _, _)
AllPatchEntries(ps, n, geom) ==
    IF n = 0 THEN << >>
    ELSE AllPatchEntries(ps, n - 1, geom) \o PatchEntries(ps, n, geom)

num_patches_expr(ps) == Len(ps)

\* ------------------------------------------------------------ str.strip()
IsSpace(tok) == tok \in {" ", "\n", "\t"}

RECURSIVE LStrip(_)
LStrip(s) ==
    IF s # << >> /\ IsSpace(Head(s)) THEN LStrip(Tail(s)) ELSE s

RECURSIVE RStrip(_)
RStrip(s) ==
    IF s # << >> /\ IsSpace(s[Len(s)])
    THEN RStrip(SubSeq(s, 1, Len(s) - 1)) ELSE s

Strip(s) == RStrip(LStrip(s))

\* The stages f_execute_mfc_component accepts.
RecognizedStages == { <<"pre_process">>, <<"simulation">>, <<"post_process">> }

Zero == [m |-> 0, e |-> 0]

\* -------------------------------------------------------------------- state
VARIABLES
    script,      \* which case file runs
    pc,          \* the statement the script has reached
    exc,         \* the Python exception or error that ended the run ("" : none)
    p0, rho0, c0, uu, Ca, We, Re_inv,
    cfl, Nx, Nfiles, dx, dt, Nt_raw, Nt, Nout,
    argv, comp_name, engine,
    patches,     \* the patch declarations written in the literal
    entries,     \* the entries of the dict literal, in order
    case_dict,
    launches,    \* external processes started
    sent,        \* the mapping handed to the external component
    status       \* exit status of the external process (-1 : none yet)

physVars == <<p0, rho0, c0, uu, Ca, We, Re_inv>>

gridVars == <<cfl, Nx, Nfiles, dx, dt, Nt_raw, Nt, Nout>>

argVars == <<argv, comp_name, engine>>

dictVars == <<patches, entries, case_dict>>

extVars == <<launches, sent, status>>

vars == <<script, pc, exc, physVars, gridVars, argVars, dictVars, extVars>>

Init ==
    /\ script \in Scripts
    /\ pc = "start"
    /\ exc = ""
    /\ p0 = Zero /\ rho0 = Zero /\ c0 = Zero /\ uu = Zero
    /\ Ca = Zero /\ We = Zero /\ Re_inv = Zero
    /\ cfl = Zero /\ Nx = 0 /\ Nfiles = 0 /\ dx = Zero /\ dt = Zero
    /\ Nt_raw = 0 /\ Nt = 0 /\ Nout = 0
    /\ argv \in ArgvInputs
    /\ comp_name = << >>
    /\ engine = ""
    /\ patches = << >>
    /\ entries = << >>
    /\ case_dict = EmptyDict
    /\ launches = 0
    /\ sent = EmptyDict
    /\ status = -1

Raise(e) == pc' = "crashed" /\ exc' = e

\* Lines 5-53 of input_bak.py.
Normalize ==
    /\ script = "bubscreen" /\ pc = "start"
    /\ \E in \in PhysicalInputs :
        /\ p0' = in[1] /\ rho0' = in[2]
        /\ IF in[2].m = 0
           THEN Raise("ZeroDivisionError")
                /\ UNCHANGED <<c0, uu, Ca, We, Re_inv>>
           ELSE IF FDiv(in[1], in[2]).m < 0
           THEN Raise("ValueError")
                /\ UNCHANGED <<c0, uu, Ca, We, Re_inv>>
           ELSE IF in[1].m = 0
           THEN Raise("ZeroDivisionError")
                /\ UNCHANGED <<c0, uu, Ca, We, Re_inv>>
           ELSE /\ c0' = c0_expr(in[1], in[2])
                /\ uu' = uu_expr(in[1], in[2])
                /\ Ca' = Ca_expr(in[1], pv, in[2], uu')
                /\ We' = We_expr(in[2], uu', R0ref, ss)
                /\ Re_inv' = Re_inv_expr(mul0, in[2], uu', R0ref)
                /\ pc' = "normalized" /\ exc' = ""
    /\ UNCHANGED <<script, gridVars, argVars, dictVars, extVars>>

\* Lines 59-82 of input_bak.py.
Plan ==
    /\ script = "bubscreen" /\ pc = "normalized"
    /\ \E c \in CflInputs, n \in NxInputs, nf \in NfilesInputs :
        /\ cfl' = c /\ Nx' = n /\ Nfiles' = nf
        /\ IF n = 0
           THEN Raise("ZeroDivisionError")
                /\ UNCHANGED <<dx, dt, Nt_raw, Nt, Nout>>
           ELSE /\ dx' = dx_expr(L_expr(Ldomain, x0), n)
                /\ dt' = dt_expr(c, dx', cphysical, c0)
                /\ IF dt'.m = 0
                   THEN Raise("ZeroDivisionError")
                        /\ UNCHANGED <<Nt_raw, Nt, Nout>>
                   ELSE /\ Nt_raw' =
                             Nt_raw_expr(Tfinal_expr(Ldomain, cphysical, c0, x0), dt')
                        /\ Nout' = Nout_expr(Nt_raw', nf)
                        /\ Nt' = Nt_expr(Nout', nf)
                        /\ pc' = "planned" /\ exc' = ""
    /\ UNCHANGED <<script, physVars, argVars, dictVars, extVars>>

\* Lines 5-13 of 2d_5wave/input.py.
Plan5wave ==
    /\ script = "5wave" /\ pc = "start"
    /\ Nx' = Nx_5wave
    /\ dx' = FDiv(F(1, 0), FMul(F(1, 0), FromInt(Nx_5wave + 1)))
    /\ Nt_raw' = Nt_5wave
    /\ Nt' = Nt_5wave
    /\ Nfiles' = Nfiles_5wave
    /\ dt' = FDiv(Tend_5wave, FMul(F(1, 0), FromInt(Nt_5wave)))
    /\ pc' = "planned"
    /\ UNCHANGED <<script, exc, physVars, cfl, Nout, argVars, dictVars, extVars>>

\* comp_name = argv[1].strip(); engine = 'serial'.
Select ==
    /\ pc = "planned"
    /\ IF Len(argv) < 2
       THEN Raise("IndexError") /\ UNCHANGED <<comp_name, engine>>
       ELSE /\ comp_name' = Strip(argv[2])
            /\ engine' = "serial"
            /\ pc' = "selected" /\ exc' = ""
    /\ UNCHANGED <<script, physVars, gridVars, argv, dictVars, extVars>>

\* The entries of the case_dict literal, in the order they are written.
LiteralEntries(scr, ps, dup) ==
    LET save == IF scr = "5wave" THEN Nout_expr(Nt, Nfiles_5wave) ELSE Nout
        geom == IF scr = "5wave" THEN 3 ELSE 1
    IN << Entry(Key("m"), Nx),
          Entry(Key("dt"), dt),
          Entry(Key("t_step_start"), 0),
          Entry(Key("t_step_stop"), Nt),
          Entry(Key("t_step_save"), save),
          Entry(Key("num_patches"), num_patches_expr(ps)) >>
       \o AllPatchEntries(ps, Len(ps), geom)
       \o (IF scr = "bubscreen"
           THEN << Entry(Key("Ca"), Ca), Entry(Key("Web"), We),
                   Entry(Key("Re_inv"), Re_inv) >>
           ELSE << >>)
       \o (IF dup = "" THEN << >> ELSE << Entry(Key(dup), Nx + 1) >>)

\* case_dict = { ... }
Assemble ==
    /\ pc = "selected"
    /\ \E ps \in PatchInputs, dup \in DupInputs :
        /\ patches' = ps
        /\ entries' = LiteralEntries(script, ps, dup)
        /\ case_dict' = DictLiteral(entries')
    /\ Nout' = IF script = "5wave" THEN Nout_expr(Nt, Nfiles_5wave) ELSE Nout
    /\ pc' = "assembled"
    /\ UNCHANGED <<script, exc, physVars, cfl, Nx, Nfiles, dx, dt, Nt_raw, Nt,
                   argVars, extVars>>

\* f_execute_mfc_component(name, dict, mfc_dir, engine) of m_python_proxy: an
\* unrecognized component name is a configuration error raised before any
\* external process is launched; otherwise the descriptor is forwarded as it
\* is and the external process started.
f_execute_mfc_component(name, dict) ==
    IF name \in RecognizedStages
    THEN /\ launches' = launches + 1
         /\ sent' = dict
         /\ pc' = "running" /\ exc' = ""
    ELSE /\ pc' = "config_error" /\ exc' = "unrecognized component"
         /\ UNCHANGED <<launches, sent>>

\* The call with the stage written out instead of comp_name.
Dispatch_hardcoded ==
    /\ pc = "assembled"
    /\ f_execute_mfc_component(<<"pre_process">>, case_dict)
    /\ UNCHANGED <<script, physVars, gridVars, argVars, dictVars, status>>

\* The call placed before the dict literal.
Dispatch_early ==
    /\ pc = "selected"
    /\ f_execute_mfc_component(comp_name, case_dict)
    /\ UNCHANGED <<script, physVars, gridVars, argVars, dictVars, status>>

\* A field of case_dict reassigned between the literal and the call.
Dispatch_reassigned ==
    /\ pc = "assembled"
    /\ case_dict' = Put(case_dict, Key("t_step_start"), 1)
    /\ f_execute_mfc_component(comp_name, case_dict')
    /\ UNCHANGED <<script, physVars, gridVars, argVars, patches, entries, status>>

\* The last statement of both files:
\* f_execute_mfc_component(comp_name, case_dict, mfc_dir, engine)
Dispatch ==
    /\ pc = "assembled"
    /\ f_execute_mfc_component(comp_name, case_dict)
    /\ UNCHANGED <<script, physVars, gridVars, argVars, dictVars, status>>

\* The external process ends; a failure ends the invocation.
ExternalExit ==
    /\ pc = "running"
    /\ \E st \in {0, 1} :
        /\ status' = st
        /\ IF st = 0
           THEN pc' = "done" /\ exc' = ""
           ELSE pc' = "failed" /\ exc' = "external failure"
    /\ UNCHANGED <<script, physVars, gridVars, argVars, dictVars, launches, sent>>

Next ==
    \/ Normalize
    \/ Plan
    \/ Plan5wave
    \/ Select
    \/ Assemble
    \/ Dispatch
    \/ ExternalExit

Spec == Init /\ [][Next]_vars

\* ------------------------------------------------------ positions of the run
\* The planner's statements have run (the run may have ended later).
Planned ==
    \/ pc \in {"planned", "selected", "assembled", "running", "config_error",
               "done", "failed"}
    \/ pc = "crashed" /\ exc = "IndexError"

\* The case_dict literal has been evaluated.
Assembled == pc \in {"assembled", "running", "config_error", "done", "failed"}

\* f_execute_mfc_component has been called.
Dispatched == pc \in {"running", "config_error", "done", "failed"}

\* The literals of input_bak.py as it is written.
FileValues ==
    /\ script = "bubscreen"
    /\ p0 = F(101325, 0) /\ rho0 = F(1000, 0)

FileGrid == FileValues /\ cfl = F(1, -1) /\ Nx = Nx_bubscreen

\* -------------------------------------------------------------------- claims

\* C1: once the planner has run, Nout * Nfiles = Nt exactly and Nt >= 0; in
\* the assembled descriptor t_step_stop = t_step_save * Nfiles (Nfiles is 20
\* in input_bak.py and 1 in 2d_5wave/input.py).
C1_OutputIntervalDividesSteps ==
    /\ (script = "bubscreen" /\ Planned) => (Nout * Nfiles = Nt /\ Nt >= 0)
    /\ Assembled =>
         /\ case_dict[Key("t_step_stop")] =
                case_dict[Key("t_step_save")] * Nfiles
         /\ case_dict[Key("t_step_stop")] >= 0

\* The descriptor is assembled from a raw step count that is no multiple of
\* the 20 output files, so that the recomputation changed Nt.
C1_Witness ==
    /\ pc = "assembled" /\ script = "bubscreen"
    /\ Nfiles = Nfiles_bubscreen /\ Nt_raw > 0 /\ Nt # Nt_raw

\* C2: every alter_patch(j) entry recorded on patch i names an earlier patch,
\* 1 <= j < i; a later or nonexistent index is never recorded in a descriptor.
C2_AlterNamesEarlierPatch ==
    Assembled =>
        \A k \in DOMAIN case_dict :
            (k[1] = "patch_icpp" /\ k[3] = "alter_patch") =>
                (1 <= k[4] /\ k[4] < k[2])

\* C3: no descriptor is produced from a literal that gives a field name twice
\* (assembly fails instead of letting the later value overwrite the earlier).
C3_DuplicateFieldFailsFast ==
    Assembled => ~HasDuplicateKeys(entries)

\* C4: whenever the external process has been launched the selector was a
\* recognized stage, and a dispatch with an unrecognized selector ends in the
\* configuration-error state with nothing launched.
C4_UnrecognizedNeverLaunched ==
    /\ launches > 0 => comp_name \in RecognizedStages
    /\ (Dispatched /\ comp_name \notin RecognizedStages) =>
           (pc = "config_error" /\ launches = 0)

\* An unrecognized selector was dispatched and rejected.
C4_Witness ==
    pc = "config_error" /\ comp_name = <<"bogus">> /\ launches = 0

\* C5: no descriptor is assembled (and so none dispatched) from rho0 <= 0,
\* p0 <= pv or Nx = 0.
C5_NonPhysicalInputsAbort ==
    (script = "bubscreen" /\ Assembled) =>
        (rho0.m > 0 /\ ~FLeq(p0, pv) /\ Nx # 0)

\* C6: the planned time step implies a CFL ratio (cphysical/c0)*dt/dx below 1,
\* and no external process is launched for a cfl target >= 1.
C6_CflBelowOne ==
    /\ (script = "bubscreen" /\ Planned) =>
           FLess(ImpliedCfl(cphysical, c0, dt, dx), F(1, 0))
    /\ (script = "bubscreen" /\ launches > 0) => FLess(cfl, F(1, 0))

C8_WeberAsStated ==
    (FileValues /\ pc # "start") => FWithinPct(We, F(1393, 1), 1)

\* C8 (amended): for the same values the Weber number
\* rho0 * uu^2 * R0ref / ss is within 1% of 13.93.
C8_WeberAmended ==
    (FileValues /\ pc # "start") => FWithinPct(We, F(1393, -2), 1)

\* The normalizer has run on the values of the file.
C8_Witness == FileValues /\ pc = "normalized"

\* C9 (as stated): for L = 20e-3/x0, Nx = 100, cfl = 0.1, cphysical = 1475
\* the planner yields dx = 2 and dt within 1% of 0.00136.
C9_GridAsStated ==
    (FileGrid /\ Planned) =>
        (FWithinPct(dx, F(2, 0), 1) /\ FWithinPct(dt, F(136, -5), 1))

\* C9 (amended): for the same values dx = L/Nx is 20 and
\* dt = cfl*dx/(cphysical/c0) is within 1% of 0.01365.
C9_GridAmended ==
    (FileGrid /\ Planned) =>
        (FWithinPct(dx, F(20, 0), 1) /\ FWithinPct(dt, F(1365, -5), 1))

\* The planner has run on the values of the file.
C9_Witness == FileGrid /\ pc = "planned"

\* The state part of C10: at most one launch, only with the descriptor
\* assembled; a failed external process leaves the invocation failed.
C10_LaunchState ==
    /\ launches <= 1
    /\ launches = 1 =>
         /\ pc \in {"running", "done", "failed"}
         /\ entries # << >> /\ case_dict = DictLiteral(entries)
    /\ status = 1 => (pc = "failed" /\ exc = "external failure")

\* The step part of C10: a launch starts from the assembled descriptor, and
\* nothing follows a failure.
C10_LaunchStep ==
    /\ launches' # launches => (pc = "assembled" /\ launches' = launches + 1)
    /\ pc = "failed" => (pc' = "failed" /\ launches' = launches)

\* C10: in every state at most one launch has happened, with the descriptor
\* assembled, and a failure is the invocation's outcome; every step that
\* launches starts from the assembled descriptor, and no step leaves the
\* failed state or launches again (no retry, no recovery).
C10_SingleLaunchNoRetry == [](C10_LaunchState) /\ [][C10_LaunchStep]_vars

\* The external process was launched once and failed.
C10_Witness == pc = "failed" /\ launches = 1 /\ status = 1

\* The state part of C11: the mapping handed to the external component is
\* the mapping the literal produced, field for field.
C11_HandedState ==
    launches > 0 =>
        (sent = DictLiteral(entries) /\ sent = case_dict /\ entries # << >>)

\* The step part of C11: case_dict is assigned by the literal alone, and no
\* step after it (the dispatch step included) changes a field.
C11_FrozenStep ==
    /\ case_dict' # case_dict => (pc = "selected" /\ pc' = "assembled")
    /\ Assembled => (case_dict' = case_dict /\ entries' = entries)
    /\ launches > 0 => sent' = sent

\* C11: the descriptor is built once and no step changes it after assembly;
\* what is handed to the external component is field for field the mapping
\* the assembly produced, and the dispatch step leaves every field unchanged.
C11_DescriptorReadOnly == [](C11_HandedState) /\ [][C11_FrozenStep]_vars

\* A two-patch descriptor was handed over and the external process ended.
C11_Witness ==
    /\ pc = "done" /\ launches = 1 /\ Len(patches) = 2
    /\ sent = case_dict /\ Key("t_step_stop") \in DOMAIN sent

\* C12: when the raw step estimate is 0 the planner yields Nout = 0 and
\* Nt = 0, the descriptor has t_step_stop = t_step_start = 0, and the run is
\* not ended by it: the next statement (selection, the literal, the call) can
\* run, and a recognized stage is launched.
C12_ZeroStepsIsNormal ==
    (script = "bubscreen" /\ Planned /\ Nt_raw = 0) =>
        /\ Nout = 0 /\ Nt = 0
        /\ Assembled =>
             /\ case_dict[Key("t_step_stop")] = 0
             /\ case_dict[Key("t_step_start")] = 0
             /\ case_dict[Key("t_step_save")] = 0
        /\ pc = "planned" => ENABLED Select
        /\ pc = "selected" => ENABLED Assemble
        /\ pc = "assembled" => ENABLED Dispatch
        /\ pc = "crashed" => exc = "IndexError"
        /\ (Dispatched /\ comp_name \in RecognizedStages) => launches = 1

\* A zero-step descriptor was assembled and the external component launched.
C12_Witness ==
    /\ script = "bubscreen" /\ pc = "running" /\ Nt_raw = 0
    /\ sent[Key("t_step_stop")] = 0

\* C13: the recomputed Nt is the smallest multiple of Nfiles that is not
\* below the raw estimate: Nt_raw <= Nt < Nt_raw + Nfiles, Nt = Nout * Nfiles
\* and Nout = ceil(Nt_raw / Nfiles).
C13_SmallestMultipleNotBelowRaw ==
    (script = "bubscreen" /\ Planned) =>
        /\ Nt_raw >= 0 /\ Nfiles >= 1
        /\ Nt_raw <= Nt /\ Nt < Nt_raw + Nfiles
        /\ Nt = Nout * Nfiles
        /\ (Nout - 1) * Nfiles < Nt_raw /\ Nt_raw <= Nout * Nfiles

\* A raw estimate of 7 steps with 3 output files was lengthened to 9.
C13_Witness ==
    /\ script = "bubscreen" /\ pc = "planned"
    /\ Nt_raw = 7 /\ Nfiles = 3 /\ Nout = 3 /\ Nt = 9
====
